---- MODULE Spec2Model ----
(***************************************************************************)
(* Model of the Blender AI agent's task bridge:                            *)
(*   src/server/app.py          generate, sanitize_script, LATEST_PREVIEW  *)
(*   src/agent/blender_agent.py OP_MAP, process_operations_main_thread,    *)
(*                              blender_timer, enqueue_ops, enqueue_script *)
(***************************************************************************)
EXTENDS Integers, Sequences, FiniteSets, TLC

VARIABLES
    code,             \* sanitize_script: the code text under validation (a token sequence)
    verdict,          \* sanitize_script: its return value, or Pending before the call
    task_queue,       \* blender_agent.task_queue: the items put and not yet got
    response_queue,   \* blender_agent.response_queue
    timer,            \* blender_timer: where the current invocation stands, and its item
    rpc,              \* server_thread: the XML-RPC call being served (one at a time)
    scene,            \* bpy.data.objects
    files,            \* OUTPUT_DIR: the names of the exported model files
    previews,         \* OUTPUT_DIR: the preview_* images, oldest first (by mtime)
    gen,              \* app.generate: the state of each request being handled
    LATEST_PREVIEW,   \* app.LATEST_PREVIEW
    pushed,           \* history: the number of items put on task_queue
    popped,           \* history: the items got by blender_timer, in order: the id of
                      \* each and how many items it left on task_queue
    returned,         \* history: what each finished XML-RPC call returned
    last_run          \* history: what the last run of a task did

sanVars == <<code, verdict>>
agentVars == <<task_queue, response_queue, timer, rpc, scene, files, previews>>
appVars == <<gen, LATEST_PREVIEW>>
histVars == <<pushed, popped, returned, last_run>>
vars == <<code, verdict, task_queue, response_queue, timer, rpc, scene, files, previews,
          gen, LATEST_PREVIEW, pushed, popped, returned, last_run>>

-----------------------------------------------------------------------------
(* Bounds of the model.                                                    *)

\* Number of statements (lines) of a code sample.
MaxStmts == 2

\* Number of entries of an operation batch (SpecOps).
MaxOps == 3

\* Number of XML-RPC calls (tasks pushed) in a behaviour.
MaxCalls == 2

\* Number of generate requests in a behaviour.
MaxGen == 2

\* The 60 s and 300 s of the wait loops, counted in sleeps of the loop.
OpsTimeoutSleeps == 1
ScriptTimeoutSleeps == 2

-----------------------------------------------------------------------------
(* Code text.  A text is a sequence of tokens; "\n" ends a statement.      *)

NEWLINE == "\n"
Keywords == {"import", "from", "if"}
Punct == {".", ",", "(", ")", "[", "]", ":", "=", NEWLINE}
StrLits == {"'ls'", "'CYCLES'", "'cycles'", "'BLENDER_EEVEE'"}
\* "<fence>" stands for the three backquotes of a Markdown code fence.
Fences == {"<fence>", "<fence>python"}

IsIdent(tok) ==
    tok \notin Keywords /\ tok \notin Punct /\ tok \notin StrLits /\ tok \notin Fences

\* The statements the code samples are built from.
SampleLines == {
    <<"import", "bpy">>,
    <<"import", "os">>,
    <<"import", "bpy", ",", "os">>,
    <<"import", "os", ".", "path">>,
    <<"from", "math", "import", "sin">>,
    <<"from", "subprocess", "import", "run">>,
    <<"from", ".", "import", "x">>,
    <<"os", ".", "system", "(", "'ls'", ")">>,
    <<"eval", "(", "'ls'", ")">>,
    <<"bpy", ".", "ops", ".", "render", "(", ")">>,
    <<"f", "(", "eval", "(", "'ls'", ")", ")">>,
    <<"os", ".", "system", "(", "open", "(", "'ls'", ")", ")">>,
    <<"x", "[", "'ls'", "]", ".", "system", "(", ")">>,
    <<"bpy", ".", "data", "[", "'ls'", "]", ".", "select", "(", ")">>,
    <<"f", "(", ")", ".", "popen", "(", ")">>,
    <<"x", "[", "'ls'", "]", "(", ")">>,
    <<"x", "=", "open", "(", "'ls'", ")">>,
    <<"if", "x", ":", "import", "os">>,
    <<"if", "eval", "(", "'ls'", ")", ":", "import", "bpy">>,
    <<"eval", "(", "'ls'">>,
    <<"import", "os", ")">>
}

RECURSIVE JoinLines(_)
JoinLines(ls) ==
    IF ls = <<>> THEN <<>>
    ELSE IF Len(ls) = 1 THEN ls[1]
    ELSE ls[1] \o <<NEWLINE>> \o JoinLines(Tail(ls))

CodeSamples ==
    { JoinLines(ls) : ls \in UNION { [1..n -> SampleLines] : n \in 1..MaxStmts } }

-----------------------------------------------------------------------------
(* ast.parse: a recursive-descent parser for the statement forms above.    *)
(* A node is [type, id, kids, names]; kids are the child nodes in the      *)
(* order ast.NodeVisitor.generic_visit walks them.                         *)

Node(type, id, kids, names) == [type |-> type, id |-> id, kids |-> kids, names |-> names]
NameNode(id) == Node("Name", id, <<>>, <<>>)
ConstantNode(v) == Node("Constant", v, <<>>, <<>>)
AttributeNode(value, attr) == Node("Attribute", attr, <<value>>, <<>>)
CallNode(func, args) == Node("Call", "", <<func>> \o args, <<>>)
SubscriptNode(value, slice) == Node("Subscript", "", <<value, slice>>, <<>>)
ExprNode(value) == Node("Expr", "", <<value>>, <<>>)
ImportNode(names) == Node("Import", "", <<>>, names)
ImportFromNode(module) == Node("ImportFrom", "", <<>>, <<module>>)
AssignNode(target, value) == Node("Assign", "", <<target, value>>, <<>>)
IfNode(test, stmt) == Node("If", "", <<test, stmt>>, <<>>)
ModuleNode(body) == Node("Module", "", body, <<>>)

Parsed(node, rest) == [ok |-> TRUE, node |-> node, rest |-> rest]
ParseFail == [ok |-> FALSE, node |-> <<>>, rest |-> <<>>]

DropTokens(toks, n) == SubSeq(toks, n + 1, Len(toks))

RECURSIVE ParseExpr(_), ParseTrailers(_, _), ParseArgs(_, _)
ParseExpr(toks) ==
    IF toks = <<>> THEN ParseFail
    ELSE IF IsIdent(Head(toks)) THEN ParseTrailers(NameNode(Head(toks)), Tail(toks))
    ELSE IF Head(toks) \in StrLits THEN ParseTrailers(ConstantNode(Head(toks)), Tail(toks))
    ELSE ParseFail

ParseTrailers(node, toks) ==
    IF toks = <<>> THEN Parsed(node, toks)
    ELSE IF Head(toks) = "."
    THEN IF Len(toks) >= 2 /\ IsIdent(toks[2])
         THEN ParseTrailers(AttributeNode(node, toks[2]), DropTokens(toks, 2))
         ELSE ParseFail
    ELSE IF Head(toks) = "("
    THEN LET a == ParseArgs(<<>>, Tail(toks))
         IN  IF a.ok THEN ParseTrailers(CallNode(node, a.node), a.rest) ELSE ParseFail
    ELSE IF Head(toks) = "["
    THEN LET e == ParseExpr(Tail(toks))
         IN  IF e.ok /\ e.rest # <<>> /\ Head(e.rest) = "]"
             THEN ParseTrailers(SubscriptNode(node, e.node), Tail(e.rest))
             ELSE ParseFail
    ELSE Parsed(node, toks)

ParseArgs(acc, toks) ==
    IF toks = <<>> THEN ParseFail
    ELSE IF Head(toks) = ")" THEN Parsed(acc, Tail(toks))
    ELSE LET e == ParseExpr(toks)
         IN  IF ~e.ok \/ e.rest = <<>> THEN ParseFail
             ELSE IF Head(e.rest) = "," THEN ParseArgs(Append(acc, e.node), Tail(e.rest))
             ELSE IF Head(e.rest) = ")" THEN Parsed(Append(acc, e.node), Tail(e.rest))
             ELSE ParseFail

\* dotted_name: NAME ("." NAME)*
RECURSIVE ParseDotted(_, _)
ParseDotted(acc, toks) ==
    IF toks = <<>> \/ ~IsIdent(Head(toks)) THEN ParseFail
    ELSE IF Len(toks) >= 2 /\ toks[2] = "."
         THEN ParseDotted(Append(acc, Head(toks)), DropTokens(toks, 2))
         ELSE Parsed(Append(acc, Head(toks)), Tail(toks))

\* import dotted_name ("," dotted_name)*
RECURSIVE ParseImportNames(_, _)
ParseImportNames(acc, toks) ==
    LET d == ParseDotted(<<>>, toks)
    IN  IF ~d.ok THEN ParseFail
        ELSE IF d.rest = <<>> THEN Parsed(ImportNode(Append(acc, d.node)), <<>>)
        ELSE IF Head(d.rest) = "," THEN ParseImportNames(Append(acc, d.node), Tail(d.rest))
        ELSE ParseFail

\* from (dotted_name | ".") import NAME ; a relative import has module None,
\* which visit_ImportFrom reads as "" (here the empty dotted name).
ParseImportFrom(toks) ==
    LET m == IF toks # <<>> /\ Head(toks) = "."
             THEN Parsed(<<>>, Tail(toks))
             ELSE ParseDotted(<<>>, toks)
    IN  IF m.ok /\ Len(m.rest) = 2 /\ m.rest[1] = "import" /\ IsIdent(m.rest[2])
        THEN Parsed(ImportFromNode(m.node), <<>>)
        ELSE ParseFail

\* expr_stmt: expr ["=" expr]
ParseExprStmt(toks) ==
    LET e == ParseExpr(toks)
    IN  IF ~e.ok THEN ParseFail
        ELSE IF e.rest = <<>> THEN Parsed(ExprNode(e.node), <<>>)
        ELSE IF Head(e.rest) = "=" /\ e.node.type \in {"Name", "Attribute", "Subscript"}
        THEN LET v == ParseExpr(Tail(e.rest))
             IN  IF v.ok /\ v.rest = <<>>
                 THEN Parsed(AssignNode(e.node, v.node), <<>>)
                 ELSE ParseFail
        ELSE ParseFail

\* simple_stmt: an import, a from-import, an expression statement or an assignment.
ParseSimpleStmt(toks) ==
    IF toks = <<>> THEN ParseFail
    ELSE IF Head(toks) = "import" THEN ParseImportNames(<<>>, Tail(toks))
    ELSE IF Head(toks) = "from" THEN ParseImportFrom(Tail(toks))
    ELSE ParseExprStmt(toks)

\* stmt: simple_stmt | "if" expr ":" simple_stmt
ParseStmt(toks) ==
    IF toks # <<>> /\ Head(toks) = "if"
    THEN LET t == ParseExpr(Tail(toks))
         IN  IF t.ok /\ t.rest # <<>> /\ Head(t.rest) = ":"
             THEN LET b == ParseSimpleStmt(Tail(t.rest))
                  IN  IF b.ok THEN Parsed(IfNode(t.node, b.node), <<>>) ELSE ParseFail
             ELSE ParseFail
    ELSE ParseSimpleStmt(toks)

\* The tokens of the first line, and what follows its NEWLINE.
RECURSIVE FirstLine(_)
FirstLine(toks) ==
    IF toks = <<>> \/ Head(toks) = NEWLINE THEN <<>>
    ELSE <<Head(toks)>> \o FirstLine(Tail(toks))

AfterFirstLine(toks) == DropTokens(toks, Len(FirstLine(toks)) + 1)

RECURSIVE ParseBody(_, _)
ParseBody(acc, toks) ==
    LET s == ParseStmt(FirstLine(toks))
    IN  IF ~s.ok THEN ParseFail
        ELSE IF Len(FirstLine(toks)) = Len(toks) THEN Parsed(ModuleNode(Append(acc, s.node)), <<>>)
        ELSE ParseBody(Append(acc, s.node), AfterFirstLine(toks))

\* ast.parse(code): the Module node, or ok = FALSE where Python raises SyntaxError.
ast_parse(text) ==
    IF text = <<>> THEN Parsed(ModuleNode(<<>>), <<>>) ELSE ParseBody(<<>>, text)

-----------------------------------------------------------------------------
(* sanitize_script and its Scanner (an ast.NodeVisitor).                   *)

forbidden_calls ==
    {"eval", "exec", "compile", "open", "__import__", "run", "Popen", "system", "popen"}

allowed_imports == {"bpy", "math", "mathutils", "random"}

\* Scanner.error: None, or the message, kept as its fixed text and the name
\* (a dotted name is the sequence of its segments).
NoError == [kind |-> "None", name |-> <<>>]
ErrorMsg(kind, name) == [kind |-> kind, name |-> name]

\* alias.name.split(".")[0]; "".split(".")[0] is "".
Base(dotted) == IF dotted = <<>> THEN "" ELSE dotted[1]

\* Mutant of visit_Import_names: only the first alias of the statement is looked at.
visit_Import_names_first_alias(names, error) ==
    IF names # <<>> /\ Base(Head(names)) \notin allowed_imports
    THEN ErrorMsg("import not allowed", Head(names))
    ELSE error

\* for alias in node.names: the first alias outside allowed_imports sets the error.
RECURSIVE visit_Import_names(_, _)
visit_Import_names(names, error) ==
    IF names = <<>> THEN error
    ELSE IF Base(Head(names)) \notin allowed_imports
         THEN ErrorMsg("import not allowed", Head(names))
         ELSE visit_Import_names(Tail(names), error)

visit_Import(node, error) == visit_Import_names(node.names, error)

visit_ImportFrom(node, error) ==
    LET mod == node.names[1]
    IN  IF Base(mod) \notin allowed_imports
        THEN ErrorMsg("from-import not allowed", mod)
        ELSE error

\* The while-loop of visit_Call: the attrs of an Attribute chain, innermost
\* last, and the node the chain is rooted at.
RECURSIVE ChainParts(_)
ChainParts(cur) ==
    IF cur.type = "Attribute" THEN <<cur.id>> \o ChainParts(cur.kids[1]) ELSE <<>>

RECURSIVE ChainRoot(_)
ChainRoot(cur) == IF cur.type = "Attribute" THEN ChainRoot(cur.kids[1]) ELSE cur

Reversed(s) == [i \in 1..Len(s) |-> s[Len(s) + 1 - i]]

\* Mutant of FullName: a chain that is not rooted at a name gives None.
FullName_rooted_only(func) ==
    IF func.type = "Name" THEN <<func.id>>
    ELSE IF func.type = "Attribute" /\ ChainRoot(func).type = "Name"
    THEN Reversed(Append(ChainParts(func), ChainRoot(func).id))
    ELSE <<>>

\* full: None (here <<>>) or the dotted name collected for the callee.
FullName(func) ==
    IF func.type = "Name" THEN <<func.id>>
    ELSE IF func.type = "Attribute"
    THEN LET parts == ChainParts(func)
             cur == ChainRoot(func)
         IN  Reversed(IF cur.type = "Name" THEN Append(parts, cur.id) ELSE parts)
    ELSE <<>>

\* Mutant of IsForbidden: the endswith test is left out.
IsForbidden_exact(full) == \E bad \in forbidden_calls : full = <<bad>>

\* full == bad or full.endswith("." + bad), for some bad in forbidden_calls.
IsForbidden(full) ==
    /\ full # <<>>
    /\ \E bad \in forbidden_calls :
          \/ full = <<bad>>
          \/ Len(full) > 1 /\ full[Len(full)] = bad

RECURSIVE visit(_, _), visit_all(_, _)
generic_visit(node, error) == visit_all(node.kids, error)

visit_Call(node, error) ==
    LET full == FullName(node.kids[1])
    IN  IF IsForbidden(full)
        THEN ErrorMsg("forbidden call detected", full)
        ELSE generic_visit(node, error)

visit(node, error) ==
    IF node.type = "Import" THEN visit_Import(node, error)
    ELSE IF node.type = "ImportFrom" THEN visit_ImportFrom(node, error)
    ELSE IF node.type = "Call" THEN visit_Call(node, error)
    ELSE generic_visit(node, error)

\* Mutant of visit_all: the walk stops at the first error.
visit_all_first_error(nodes, error) ==
    IF nodes = <<>> \/ error # NoError THEN error
    ELSE visit_all(Tail(nodes), visit(Head(nodes), error))

\* The loop of ast.NodeVisitor.generic_visit over the child nodes.
visit_all(nodes, error) ==
    IF nodes = <<>> THEN error
    ELSE visit_all(Tail(nodes), visit(Head(nodes), error))

\* if scanner.error: return False, scanner.error; return True, None
ScanResult(error) ==
    IF error # NoError
    THEN [ok |-> FALSE, reason |-> error]
    ELSE [ok |-> TRUE, reason |-> NoError]

\* What sanitize_script returns once ast.parse has returned tree or raised.
Scan(tree) ==
    IF ~tree.ok
    THEN [ok |-> FALSE, reason |-> ErrorMsg("syntax error during parse", <<>>)]
    ELSE ScanResult(visit(tree.node, NoError))

\* Mutant of sanitize_script: the text is searched for denied names before it is parsed.
sanitize_script_text_scan(text) ==
    IF \E i \in 1..Len(text) : text[i] \in forbidden_calls
    THEN [ok |-> FALSE, reason |-> ErrorMsg("forbidden call detected", <<>>)]
    ELSE IF ~ast_parse(text).ok
    THEN [ok |-> FALSE, reason |-> ErrorMsg("syntax error during parse", <<>>)]
    ELSE [ok |-> TRUE, reason |-> NoError]

\* sanitize_script(code) -> (ok, reason)
sanitize_script(text) == Scan(ast_parse(text))

-----------------------------------------------------------------------------
(* blender_agent.py: the scene primitives and OP_MAP.                     *)
(*                                                                         *)
(* The scene (bpy.data.objects) is a function from object names to         *)
(* objects.  Blender keeps names unique by a numeric suffix: the name      *)
(* "B1" is [base |-> "B1", k |-> 0], "B1.001" is [base |-> "B1", k |-> 1]. *)
(* params is the mapping of a batch entry; bpy_ok tells whether the        *)
(* bpy.ops calls of the invocation succeed (they raise RuntimeError        *)
(* otherwise).                                                             *)

ObjName(base) == [base |-> base, k |-> 0]

\* The name Blender gives an object that asks for the name base.
UniqueName(names, base) ==
    LET k == CHOOSE k \in 0..Cardinality(names) :
                 /\ [base |-> base, k |-> k] \notin names
                 /\ \A j \in 0..(k - 1) : [base |-> base, k |-> j] \in names
    IN  [base |-> base, k |-> k]

NewObject(location) ==
    [location |-> location, size |-> <<2, 2, 2>>, rotation_euler |-> <<0, 0, 0>>, booleans |-> 0]

WithObject(objs, name, obj) ==
    [n \in DOMAIN objs \cup {name} |-> IF n = name THEN obj ELSE objs[n]]

WithoutObject(objs, name) == [n \in DOMAIN objs \ {name} |-> objs[n]]

\* params.get(key, default)
Get(params, key, default) == IF key \in DOMAIN params THEN params[key] ELSE default

\* The values handlers return: a name (obj.name), a (bool, message) pair, a
\* path, or None.
RetName(name) == [type |-> "name", flag |-> TRUE, text |-> name.base, k |-> name.k]
RetPair(flag, message) == [type |-> "pair", flag |-> flag, text |-> message, k |-> 0]
RetPath(filename) == [type |-> "path", flag |-> TRUE, text |-> filename, k |-> 0]
RetNone == [type |-> "None", flag |-> FALSE, text |-> "", k |-> 0]

\* What a call of a handler does: it returns value or raises msg, and leaves
\* the scene (objs) and the exported files (out) behind.
Returned(value, objs, out) ==
    [raised |-> FALSE, value |-> value, msg |-> "", scene |-> objs, files |-> out]
Raised(msg, objs, out) ==
    [raised |-> TRUE, value |-> RetNone, msg |-> msg, scene |-> objs, files |-> out]

reset_scene(objs, out, bpy_ok) ==
    IF ~bpy_ok THEN Raised("RuntimeError", objs, out)
    ELSE Returned(RetNone, <<>>, out)

add_box(params, objs, out, bpy_ok) ==
    LET name == Get(params, "name", "Box")
        size == Get(params, "size", <<1, 1, 1>>)
        location == Get(params, "location", <<0, 0, 0>>)
        cube == UniqueName(DOMAIN objs, "Cube")
        added == WithObject(objs, cube, NewObject(location))
        final == UniqueName(DOMAIN objs, name)
    IN  IF ~bpy_ok THEN Raised("RuntimeError", objs, out)
        ELSE IF Len(size) < 3 THEN Raised("list index out of range", added, out)
        ELSE Returned(RetName(final),
                      WithObject(objs, final, [NewObject(location) EXCEPT !.size = size]),
                      out)

add_cylinder(params, objs, out, bpy_ok) ==
    LET name == Get(params, "name", "Cyl")
        location == Get(params, "location", <<0, 0, 0>>)
        final == UniqueName(DOMAIN objs, name)
    IN  IF ~bpy_ok THEN Raised("RuntimeError", objs, out)
        ELSE Returned(RetName(final), WithObject(objs, final, NewObject(location)), out)

\* obj.location.x += vec[0]; .y += vec[1]; .z += vec[2]: the first missing
\* index raises, after the earlier coordinates were changed.
translate(params, objs, out, bpy_ok) ==
    LET objname == ObjName(Get(params, "object", ""))
        vec == Get(params, "vector", <<0, 0, 0>>)
        n == IF Len(vec) < 3 THEN Len(vec) ELSE 3
        moved == [objs EXCEPT ![objname].location =
                     [i \in 1..3 |-> IF i <= n THEN @[i] + vec[i] ELSE @[i]]]
    IN  IF objname \notin DOMAIN objs THEN Returned(RetPair(FALSE, "object not found"), objs, out)
        ELSE IF n < 3 THEN Raised("list index out of range", moved, out)
        ELSE Returned(RetPair(TRUE, "translated"), moved, out)

rotate(params, objs, out, bpy_ok) ==
    LET objname == ObjName(Get(params, "object", ""))
        rot == Get(params, "rotation", <<0, 0, 0>>)
    IN  IF objname \notin DOMAIN objs THEN Returned(RetPair(FALSE, "object not found"), objs, out)
        ELSE IF Len(rot) # 3 THEN Raised("sequence size must be 3", objs, out)
        ELSE Returned(RetPair(TRUE, "rotated"),
                      [objs EXCEPT ![objname].rotation_euler = rot], out)

boolean_diff(params, objs, out, bpy_ok) ==
    LET target == ObjName(Get(params, "target", ""))
        cutter == ObjName(Get(params, "cutter", ""))
    IN  IF target \notin DOMAIN objs \/ cutter \notin DOMAIN objs
        THEN Returned(RetPair(FALSE, "objects not found"), objs, out)
        ELSE IF ~bpy_ok THEN Raised("RuntimeError", objs, out)
        ELSE Returned(RetPair(TRUE, "applied"),
                      WithoutObject([objs EXCEPT ![target].booleans = @ + 1], cutter),
                      out)

\* A file of OUTPUT_DIR: its name, with the int(time.time()) in it if any.
FileName(stem, stamp) == [stem |-> stem, stamp |-> stamp]

export_obj(params, objs, out, bpy_ok) ==
    LET filename == Get(params, "filename", "model.obj")
    IN  IF ~bpy_ok THEN Raised("RuntimeError", objs, out)
        ELSE Returned(RetPath(filename), objs, out \cup {FileName(filename, 0)})

\* OP_MAP: op name => the function; its second component is not used.
OP_MAP ==
    [reset |-> "reset_scene", add_box |-> "add_box", add_cylinder |-> "add_cylinder",
     translate |-> "translate", rotate |-> "rotate", boolean_diff |-> "boolean_diff",
     export |-> "export_obj"]

\* The number of positional parameters of each function.
Arity(func) == IF func = "reset_scene" THEN 0 ELSE 1

\* The body of the function func, run on params.
Body(func, params, objs, out, bpy_ok) ==
    CASE func = "add_box" -> add_box(params, objs, out, bpy_ok)
      [] func = "add_cylinder" -> add_cylinder(params, objs, out, bpy_ok)
      [] func = "translate" -> translate(params, objs, out, bpy_ok)
      [] func = "rotate" -> rotate(params, objs, out, bpy_ok)
      [] func = "boolean_diff" -> boolean_diff(params, objs, out, bpy_ok)
      [] func = "export_obj" -> export_obj(params, objs, out, bpy_ok)
      [] OTHER -> reset_scene(objs, out, bpy_ok)

\* func(params): Python raises TypeError when the function does not take
\* the one argument it is given, and its body is not run.
Call(func, params, objs, out, bpy_ok) ==
    IF Arity(func) # 1
    THEN Raised("takes 0 positional arguments but 1 was given", objs, out)
    ELSE Body(func, params, objs, out, bpy_ok)

\* An entry of the history of the calls func(params) that a batch made.
CallRecord(func, r, objs, out) ==
    [func |-> func, raised |-> r.raised, msg |-> r.msg, value |-> r.value,
     before |-> [scene |-> objs, files |-> out],
     after |-> [scene |-> r.scene, files |-> r.files]]

\* Mutant of ProcessOne: an unknown name is passed over without a result.
ProcessOne_skip_unknown(acc, op) ==
    LET name == op.op
        params == op.params
    IN  IF name \notin DOMAIN OP_MAP
        THEN acc
        ELSE LET func == OP_MAP[name]
                 r == Call(func, params, acc.scene, acc.files, op.bpy_ok)
             IN  [results |->
                      Append(acc.results,
                             IF r.raised
                             THEN [op |-> name, status |-> "error", msg |-> r.msg]
                             ELSE [op |-> name, status |-> "ok", result |-> r.value]),
                  scene |-> r.scene,
                  files |-> r.files,
                  called |-> Append(acc.called, CallRecord(func, r, acc.scene, acc.files))]

\* Mutant of ProcessOne: a (False, message) pair returned by the handler is
\* reported as an error.
ProcessOne_pair_is_error(acc, op) ==
    LET name == op.op
        params == op.params
    IN  IF name \notin DOMAIN OP_MAP
        THEN [acc EXCEPT !.results =
                 Append(@, [op |-> name, status |-> "error", msg |-> "unsupported op"])]
        ELSE LET func == OP_MAP[name]
                 r == Call(func, params, acc.scene, acc.files, op.bpy_ok)
                 failed == r.raised \/ (r.value.type = "pair" /\ ~r.value.flag)
             IN  [results |->
                      Append(acc.results,
                             IF failed
                             THEN [op |-> name, status |-> "error",
                                   msg |-> IF r.raised THEN r.msg ELSE r.value.text]
                             ELSE [op |-> name, status |-> "ok", result |-> r.value]),
                  scene |-> r.scene,
                  files |-> r.files,
                  called |-> Append(acc.called, CallRecord(func, r, acc.scene, acc.files))]

\* One turn of the loop of process_operations_main_thread: acc is
\* [results, scene, files, called], called being the history of the calls
\* func(params) made so far.
ProcessOne(acc, op) ==
    LET name == op.op
        params == op.params
    IN  IF name \notin DOMAIN OP_MAP
        THEN [acc EXCEPT !.results =
                 Append(@, [op |-> name, status |-> "error", msg |-> "unsupported op"])]
        ELSE LET func == OP_MAP[name]
                 r == Call(func, params, acc.scene, acc.files, op.bpy_ok)
             IN  [results |->
                      Append(acc.results,
                             IF r.raised
                             THEN [op |-> name, status |-> "error", msg |-> r.msg]
                             ELSE [op |-> name, status |-> "ok", result |-> r.value]),
                  scene |-> r.scene,
                  files |-> r.files,
                  called |-> Append(acc.called, CallRecord(func, r, acc.scene, acc.files))]

\* process_operations_main_thread(ops), run on the scene objs and the files out.
process_operations_main_thread(ops, objs, out) ==
    LET operations == Get(ops, "operations", <<>>)
        F[i \in 0..Len(operations)] ==
            IF i = 0
            THEN [results |-> <<>>, scene |-> objs, files |-> out, called |-> <<>>]
            ELSE ProcessOne(F[i - 1], operations[i])
    IN  F[Len(operations)]

-----------------------------------------------------------------------------
(* blender_agent.py: task_queue, response_queue and blender_timer.         *)

\* The items put on task_queue; id is history: the number of the put.
OpsItem(ops, id) == [type |-> "ops", ops |-> ops, id |-> id]
ScriptItem(text, id) == [type |-> "script", script |-> text, id |-> id]
NoItem == [type |-> "None", id |-> 0]

\* What is put on response_queue and returned to callers: a list of results
\* or a dict.
ListResp(results) == [shape |-> "list", list |-> results]
DictResp(d) == [shape |-> "dict", dict |-> d]
NoResp == [shape |-> "None"]

\* An entry of response_queue; id is history: the item whose run put it.
Response(body, id) == [body |-> body, id |-> id]

\* Mutant of QueueGet: the newest item is taken.
QueueGet_newest(q) == [item |-> q[Len(q)], rest |-> SubSeq(q, 1, Len(q) - 1)]

\* queue.Queue: put appends, get takes the oldest item.
QueuePut(q, x) == Append(q, x)
QueueGet(q) == [item |-> Head(q), rest |-> Tail(q)]

\* A value that is not a dict (None, a list, ...): .get on it raises
\* AttributeError.
NonDict == [nondict |-> TRUE]
IsDict(v) == "nondict" \notin DOMAIN v

TimerIdle == [pc |-> "idle", item |-> NoItem, found |-> "nothing"]

\* Mutant of TimerCheck: the invocation goes on to the get without the test
\* of task_queue.empty().
TimerCheck_no_test ==
    /\ timer.pc = "idle"
    /\ timer' = [timer EXCEPT !.pc = "get",
                              !.found = IF task_queue = <<>> THEN "empty" ELSE "task"]
    /\ UNCHANGED <<task_queue, response_queue, rpc, scene, files, previews>>
    /\ UNCHANGED <<sanVars, appVars, histVars>>

\* if task_queue.empty(): return 0.3
\* found is history: what this check saw.
TimerCheck ==
    /\ timer.pc = "idle"
    /\ timer' = IF task_queue = <<>>
                THEN [timer EXCEPT !.found = "empty"]
                ELSE [timer EXCEPT !.pc = "get", !.found = "task"]
    /\ UNCHANGED <<task_queue, response_queue, rpc, scene, files, previews>>
    /\ UNCHANGED <<sanVars, appVars, histVars>>

\* Mutant of TimerGet: the tick takes every item that is queued.
TimerGet_drain ==
    /\ timer.pc = "get"
    /\ task_queue # <<>>
    /\ timer' = [timer EXCEPT !.pc = "run", !.item = task_queue[Len(task_queue)]]
    /\ task_queue' = <<>>
    /\ popped' = popped \o [i \in 1..Len(task_queue) |->
                                 [id |-> task_queue[i].id, left |-> Len(task_queue) - i]]
    /\ UNCHANGED <<response_queue, rpc, scene, files, previews>>
    /\ UNCHANGED <<sanVars, appVars, pushed, returned, last_run>>

\* item = task_queue.get(): blocks while the queue is empty.
TimerGet ==
    /\ timer.pc = "get"
    /\ task_queue # <<>>
    /\ LET g == QueueGet(task_queue)
       IN  /\ timer' = [timer EXCEPT !.pc = "run", !.item = g.item]
           /\ task_queue' = g.rest
           /\ popped' = Append(popped, [id |-> g.item.id, left |-> Len(g.rest)])
    /\ UNCHANGED <<response_queue, rpc, scene, files, previews>>
    /\ UNCHANGED <<sanVars, appVars, pushed, returned, last_run>>

\* What the run of a task did (history).
NoRun == [id |-> 0, type |-> "None"]

\* The branch item.get("type") == "ops": the results are put, or, when ops
\* is no dict, the outer except puts {"error": str(e)}.
TimerRunOps ==
    /\ timer.pc = "run"
    /\ timer.item.type = "ops"
    /\ LET item == timer.item
           ops == item.ops
       IN  IF ~IsDict(ops)
           THEN /\ response_queue' =
                      QueuePut(response_queue,
                               Response(DictResp([error |-> "AttributeError"]), item.id))
                /\ last_run' = [id |-> item.id, type |-> "ops", raised |-> TRUE]
                /\ UNCHANGED <<scene, files>>
           ELSE LET r == process_operations_main_thread(ops, scene, files)
                IN  /\ response_queue' =
                          QueuePut(response_queue, Response(ListResp(r.results), item.id))
                    /\ scene' = r.scene
                    /\ files' = r.files
                    /\ last_run' = [id |-> item.id, type |-> "ops", raised |-> FALSE,
                                    ops |-> ops, results |-> r.results, called |-> r.called,
                                    before |-> scene, after |-> r.scene]
    /\ timer' = [timer EXCEPT !.pc = "idle", !.item = NoItem]
    /\ UNCHANGED <<task_queue, rpc, previews>>
    /\ UNCHANGED <<sanVars, appVars, pushed, popped, returned>>

\* What the environment decides about the run of a script: whether exec
\* raises (an Exception, or a BaseException such as SystemExit), what the
\* script did before, and which of the later steps succeed.
ScriptOutcomes ==
    { o \in [raises : {"no", "Exception", "BaseException"},
             adds_object : BOOLEAN, saves_preview : BOOLEAN,
             listdir_ok : BOOLEAN, render_ok : BOOLEAN,
             gltf_ok : BOOLEAN, obj_ok : BOOLEAN] :
        (o.raises # "no") => (o.listdir_ok /\ o.render_ok /\ o.gltf_ok /\ o.obj_ok) }

PreviewFile(name, id) == [name |-> name, by |-> id]
Path(name) == [dir |-> "OUTPUT_DIR", name |-> name]
basename(path) == path.name

\* Mutant of exported_files: one try around both exports, so that the OBJ
\* export is not attempted once the GLTF export has failed.
exported_files_one_try(o, stamp) ==
    IF ~o.gltf_ok THEN <<>>
    ELSE <<FileName("model_.gltf", stamp)>>
         \o (IF o.obj_ok THEN <<FileName("model_.obj", stamp)>> ELSE <<>>)

\* exported_files after the two exports, each in a try of its own.
exported_files(o, stamp) ==
    (IF o.gltf_ok THEN <<FileName("model_.gltf", stamp)>> ELSE <<>>)
    \o (IF o.obj_ok THEN <<FileName("model_.obj", stamp)>> ELSE <<>>)

\* The branch item.get("type") == "script".  The stamps int(time.time())
\* of the file names are abstracted to the id of the item.
TimerRunScript(o) ==
    /\ timer.pc = "run"
    /\ timer.item.type = "script"
    \* exec compiles the script first: a text that does not parse raises
    \* SyntaxError before anything runs.
    /\ ~ast_parse(timer.item.script).ok =>
          (o.raises = "Exception" /\ ~o.adds_object /\ ~o.saves_preview)
    /\ LET item == timer.item
           scene1 == IF o.adds_object
                     THEN WithObject(scene, UniqueName(DOMAIN scene, "Cube"),
                                     NewObject(<<0, 0, 0>>))
                     ELSE scene
           previews1 == IF o.saves_preview
                        THEN Append(previews,
                                    PreviewFile(FileName("preview_script.png", item.id), item.id))
                        ELSE previews
           found == o.listdir_ok /\ previews1 # <<>>
           rendered == FileName("preview_.png", item.id)
           previews2 == IF found THEN previews1
                        ELSE Append(previews1, PreviewFile(rendered, item.id))
           preview_path == Path(previews2[Len(previews2)].name)
           \* history: which of the steps after exec this run took
           run(raised, resp) ==
               [id |-> item.id, type |-> "script", raised |-> raised, resp |-> resp,
                exec |-> o.raises,
                looked |-> o.raises = "no",
                rendered |-> o.raises = "no" /\ ~found,
                gltf |-> IF o.raises = "no" /\ (found \/ o.render_ok)
                         THEN (IF o.gltf_ok THEN "ok" ELSE "failed") ELSE "skipped",
                obj |-> IF o.raises = "no" /\ (found \/ o.render_ok)
                        THEN (IF o.obj_ok THEN "ok" ELSE "failed") ELSE "skipped"]
       IN  /\ scene' = scene1
           /\ IF o.raises = "BaseException"
              THEN \* not caught by "except Exception": blender_timer is left
                   \* by the exception and is not rescheduled.
                   /\ timer' = [timer EXCEPT !.pc = "dead", !.item = NoItem]
                   /\ previews' = previews1
                   /\ last_run' = run(TRUE, NoResp)
                   /\ UNCHANGED <<response_queue, files>>
              ELSE IF o.raises = "Exception" \/ (~found /\ ~o.render_ok)
              THEN LET resp == DictResp([status |-> "error", error |-> "Exception"])
                   IN  /\ response_queue' = QueuePut(response_queue, Response(resp, item.id))
                       /\ timer' = [timer EXCEPT !.pc = "idle", !.item = NoItem]
                       /\ previews' = previews1
                       /\ last_run' = run(TRUE, resp)
                       /\ UNCHANGED files
              ELSE LET resp == DictResp([status |-> "ok", preview |-> preview_path,
                                         exported_files |-> exported_files(o, item.id)])
                   IN  /\ response_queue' = QueuePut(response_queue, Response(resp, item.id))
                       /\ timer' = [timer EXCEPT !.pc = "idle", !.item = NoItem]
                       /\ previews' = previews2
                       /\ files' = files \cup { exported_files(o, item.id)[i] :
                                                   i \in 1..Len(exported_files(o, item.id)) }
                       /\ last_run' = run(FALSE, resp)
    /\ UNCHANGED <<task_queue, rpc>>
    /\ UNCHANGED <<sanVars, appVars, pushed, popped, returned>>

-----------------------------------------------------------------------------
(* blender_agent.py: server_thread.  SimpleXMLRPCServer serves one call at *)
(* a time; rpc is the call being served.  caller is 0 for an XML-RPC       *)
(* client of its own and g for the generate request g.                     *)

RpcIdle == [pc |-> "idle", method |-> "", id |-> 0, caller |-> 0, slept |-> 0]

\* The bound of the wait loop of each function, in sleeps of the loop.
TimeoutSleeps(method) ==
    IF method = "process_operations" THEN OpsTimeoutSleeps ELSE ScriptTimeoutSleeps

\* What a returned value is, for the history of the calls.
Summary(value) ==
    IF value.shape = "list" THEN "results"
    ELSE IF "status" \in DOMAIN value.dict THEN value.dict.status
    ELSE value.dict.error

\* A call returns value; from is history: the item whose response it is
\* (0 for none), and pending: whether the item the call put was still on
\* task_queue when it returned.
Return(value, from) ==
    /\ rpc' = RpcIdle
    /\ returned' = Append(returned, [id |-> rpc.id, method |-> rpc.method,
                                     caller |-> rpc.caller, from |-> from,
                                     what |-> Summary(value),
                                     pending |-> \E i \in 1..Len(task_queue) :
                                                    task_queue[i].id = rpc.id])
    /\ gen' = IF rpc.caller # 0 /\ gen[rpc.caller].pc = "rpc"
              THEN [gen EXCEPT ![rpc.caller].pc = "resp", ![rpc.caller].resp = value]
              ELSE gen

\* task_queue.put(...); start = time.time()
Put(method, item, caller) ==
    /\ rpc.pc = "idle"
    /\ pushed < MaxCalls
    /\ task_queue' = QueuePut(task_queue, item)
    /\ pushed' = pushed + 1
    /\ rpc' = [pc |-> "wait", method |-> method, id |-> pushed + 1, caller |-> caller, slept |-> 0]

\* Mutant of WaitGet: the call takes the response of its own item, wherever
\* it is queued.
WaitGet_correlated(method) ==
    /\ rpc.pc = "wait" /\ rpc.method = method
    /\ rpc.slept < TimeoutSleeps(method)
    /\ \E i \in 1..Len(response_queue) :
          /\ response_queue[i].id = rpc.id
          /\ response_queue' = SubSeq(response_queue, 1, i - 1)
                                 \o SubSeq(response_queue, i + 1, Len(response_queue))
          /\ Return(response_queue[i].body, response_queue[i].id)
    /\ UNCHANGED <<task_queue, timer, scene, files, previews>>
    /\ UNCHANGED <<sanVars, LATEST_PREVIEW, pushed, popped, last_run>>

\* while time.time() - start < T: r = response_queue.get(block=False); return r
WaitGet(method) ==
    /\ rpc.pc = "wait" /\ rpc.method = method
    /\ rpc.slept < TimeoutSleeps(method)
    /\ response_queue # <<>>
    /\ LET g == QueueGet(response_queue)
       IN  /\ response_queue' = g.rest
           /\ Return(g.item.body, g.item.id)
    /\ UNCHANGED <<task_queue, timer, scene, files, previews>>
    /\ UNCHANGED <<sanVars, LATEST_PREVIEW, pushed, popped, last_run>>

\* except queue.Empty: time.sleep(0.05)
WaitSleep(method) ==
    /\ rpc.pc = "wait" /\ rpc.method = method
    /\ rpc.slept < TimeoutSleeps(method)
    /\ response_queue = <<>>
    /\ rpc' = [rpc EXCEPT !.slept = @ + 1]
    /\ UNCHANGED <<task_queue, response_queue, timer, scene, files, previews>>
    /\ UNCHANGED <<sanVars, appVars, histVars>>

\* Mutant of WaitTimeout: the call that gives up takes its item back.
WaitTimeout_retract(method) ==
    /\ rpc.pc = "wait" /\ rpc.method = method
    /\ rpc.slept >= TimeoutSleeps(method)
    /\ Return(DictResp([error |-> "timeout"]), 0)
    /\ task_queue' = SelectSeq(task_queue, LAMBDA t : t.id # rpc.id)
    /\ UNCHANGED <<response_queue, timer, scene, files, previews>>
    /\ UNCHANGED <<sanVars, LATEST_PREVIEW, pushed, popped, last_run>>

\* return {"error": "timeout"}
WaitTimeout(method) ==
    /\ rpc.pc = "wait" /\ rpc.method = method
    /\ rpc.slept >= TimeoutSleeps(method)
    /\ Return(DictResp([error |-> "timeout"]), 0)
    /\ UNCHANGED <<task_queue, response_queue, timer, scene, files, previews>>
    /\ UNCHANGED <<sanVars, LATEST_PREVIEW, pushed, popped, last_run>>

\* Mutant of enqueue_ops_put: the server thread runs the batch itself.
enqueue_ops_put_direct(ops) ==
    /\ Put("process_operations", OpsItem(ops, pushed + 1), 0)
    /\ IF IsDict(ops)
       THEN LET r == process_operations_main_thread(ops, scene, files)
            IN  scene' = r.scene /\ files' = r.files
       ELSE UNCHANGED <<scene, files>>
    /\ UNCHANGED <<response_queue, timer, previews>>
    /\ UNCHANGED <<sanVars, appVars, popped, returned, last_run>>

\* enqueue_ops(ops), called by an XML-RPC client.
enqueue_ops_put(ops) ==
    /\ Put("process_operations", OpsItem(ops, pushed + 1), 0)
    /\ UNCHANGED <<response_queue, timer, scene, files, previews>>
    /\ UNCHANGED <<sanVars, appVars, popped, returned, last_run>>

enqueue_ops_get == WaitGet("process_operations")
enqueue_ops_sleep == WaitSleep("process_operations")
enqueue_ops_timeout == WaitTimeout("process_operations")

\* enqueue_script(script_text), called by an XML-RPC client of its own.
enqueue_script_put(script_text) ==
    /\ Put("process_script", ScriptItem(script_text, pushed + 1), 0)
    /\ UNCHANGED <<response_queue, timer, scene, files, previews>>
    /\ UNCHANGED <<sanVars, appVars, popped, returned, last_run>>

enqueue_script_get == WaitGet("process_script")
enqueue_script_sleep == WaitSleep("process_script")
enqueue_script_timeout == WaitTimeout("process_script")

-----------------------------------------------------------------------------
(* app.py: generate and LATEST_PREVIEW.  last_updated is left out.         *)

RECURSIVE SplitLines(_)
SplitLines(toks) ==
    IF toks = <<>> THEN <<>>
    ELSE IF Len(FirstLine(toks)) = Len(toks) THEN <<toks>>
    ELSE <<FirstLine(toks)>> \o SplitLines(AfterFirstLine(toks))

StartsWithFence(line) == line # <<>> /\ Head(line) \in Fences

\* Strip common Markdown code fences: the first line, and the last line if
\* it is a fence too.
StripFences(model_text) ==
    IF model_text # <<>> /\ Head(model_text) \in Fences
    THEN LET parts == SplitLines(model_text)
             parts1 == IF StartsWithFence(parts[1]) THEN Tail(parts) ELSE parts
             parts2 == IF parts1 # <<>> /\ StartsWithFence(parts1[Len(parts1)])
                       THEN SubSeq(parts1, 1, Len(parts1) - 1)
                       ELSE parts1
         IN  JoinLines(parts2)
    ELSE model_text

EngineTarget == <<"bpy", ".", "context", ".", "scene", ".", "render", ".", "engine", "=">>

\* adjust_for_preview: the two substitutions that force Eevee where the
\* code selects CYCLES (in any case).  The caps of the sample count and of
\* the resolution rewrite numbers, which the code texts here do not have.
adjust_for_preview(text) ==
    [i \in 1..Len(text) |->
        IF /\ text[i] \in {"'CYCLES'", "'cycles'"}
           /\ i > Len(EngineTarget)
           /\ SubSeq(text, i - Len(EngineTarget), i - 1) = EngineTarget
        THEN "'BLENDER_EEVEE'"
        ELSE text[i]]

GenIdle == [pc |-> "idle", model_text |-> <<>>, validated |-> <<>>, received |-> <<>>,
            resp |-> NoResp, http |-> 0]

\* Mutant of Update: the dict is replaced, the keys that are not given
\* fall back to their first values.
Update_replace(d, changes) ==
    [k \in DOMAIN d |-> IF k \in DOMAIN changes THEN changes[k]
                        ELSE IF k = "exported_files" THEN <<>> ELSE [none |-> TRUE]]

\* LATEST_PREVIEW.update({...})
Update(d, changes) ==
    [k \in DOMAIN d |-> IF k \in DOMAIN changes THEN changes[k] ELSE d[k]]

None == [none |-> TRUE]

\* Mutant of generate_sanitize: marking the generation as running also
\* forgets the preview and the exports of the generation before.
generate_sanitize_forgets(g, text) ==
    /\ gen[g].pc = "idle"
    /\ LET model_text == adjust_for_preview(StripFences(text))
           v == sanitize_script(model_text)
       IN  IF ~v.ok
           THEN /\ LATEST_PREVIEW' = Update(LATEST_PREVIEW,
                                            [status |-> "error", error |-> v.reason])
                /\ gen' = [gen EXCEPT ![g] = [@ EXCEPT !.pc = "done", !.http = 400,
                                                       !.validated = model_text]]
           ELSE /\ LATEST_PREVIEW' = Update(LATEST_PREVIEW,
                                            [status |-> "running", error |-> None,
                                             filename |-> None, exported_files |-> <<>>])
                /\ gen' = [gen EXCEPT ![g] = [@ EXCEPT !.pc = "send",
                                                       !.received = text,
                                                       !.model_text = model_text,
                                                       !.validated = model_text]]
    /\ UNCHANGED <<sanVars, agentVars, histVars>>

\* generate, from the text received (the raw body, or what call_hermes
\* returned) to the verdict of the sanitizer: rejected, or marked running.
\* validated is history: the text sanitize_script was given.
generate_sanitize(g, text) ==
    /\ gen[g].pc = "idle"
    /\ LET model_text == adjust_for_preview(StripFences(text))
           v == sanitize_script(model_text)
       IN  IF ~v.ok
           THEN /\ LATEST_PREVIEW' = Update(LATEST_PREVIEW,
                                            [status |-> "error", error |-> v.reason])
                /\ gen' = [gen EXCEPT ![g] = [@ EXCEPT !.pc = "done", !.http = 400,
                                                       !.validated = model_text]]
           ELSE /\ LATEST_PREVIEW' = Update(LATEST_PREVIEW,
                                            [status |-> "running", error |-> None])
                /\ gen' = [gen EXCEPT ![g] = [@ EXCEPT !.pc = "send",
                                                       !.received = text,
                                                       !.model_text = model_text,
                                                       !.validated = model_text]]
    /\ UNCHANGED <<sanVars, agentVars, histVars>>

\* Mutant of SentText: the text is sent as it was received.
SentText_received(g) == gen[g].received

\* The argument of blender_server.process_script(model_text).
SentText(g) == gen[g].model_text

\* resp = blender_server.process_script(model_text): the XML-RPC server takes
\* the call and enqueue_script puts the task.
generate_call(g) ==
    /\ gen[g].pc = "send"
    /\ Put("process_script", ScriptItem(SentText(g), pushed + 1), g)
    /\ gen' = [gen EXCEPT ![g].pc = "rpc", ![g].received = <<>>]
    /\ UNCHANGED <<response_queue, timer, scene, files, previews>>
    /\ UNCHANGED <<sanVars, LATEST_PREVIEW, popped, returned, last_run>>

\* Mutant of generate_transport_error: the exception is answered with 500
\* but LATEST_PREVIEW is left as it is.
generate_transport_error_silent(g) ==
    /\ gen[g].pc \in {"send", "rpc"}
    /\ gen' = [gen EXCEPT ![g].pc = "done", ![g].http = 500, ![g].received = <<>>]
    /\ UNCHANGED <<sanVars, agentVars, LATEST_PREVIEW, histVars>>

\* except Exception as e: the call could not be made, or its connection
\* broke while enqueue_script was waiting.
generate_transport_error(g) ==
    /\ gen[g].pc \in {"send", "rpc"}
    /\ LATEST_PREVIEW' = Update(LATEST_PREVIEW,
                                [status |-> "error", error |-> ErrorMsg("transport", <<>>)])
    /\ gen' = [gen EXCEPT ![g].pc = "done", ![g].http = 500, ![g].received = <<>>]
    /\ UNCHANGED <<sanVars, agentVars, histVars>>

\* The response of the agent is interpreted.
generate_response(g) ==
    /\ gen[g].pc = "resp"
    /\ LET resp == gen[g].resp
       IN  IF /\ resp.shape = "dict"
              /\ "status" \in DOMAIN resp.dict
              /\ resp.dict.status = "ok"
              /\ "preview" \in DOMAIN resp.dict
           THEN /\ LATEST_PREVIEW' =
                      Update(LATEST_PREVIEW,
                             [status |-> "done",
                              filename |-> basename(resp.dict.preview),
                              error |-> None,
                              exported_files |-> Get(resp.dict, "exported_files", <<>>)])
                /\ gen' = [gen EXCEPT ![g].pc = "done", ![g].http = 200, ![g].resp = NoResp]
           ELSE /\ LATEST_PREVIEW' =
                      Update(LATEST_PREVIEW,
                             [status |-> "error", error |-> ErrorMsg("blender", <<>>)])
                /\ gen' = [gen EXCEPT ![g].pc = "done", ![g].http = 500, ![g].resp = NoResp]
    /\ UNCHANGED <<sanVars, agentVars, histVars>>

\* serve_latest_preview: 404 when no filename is set, the file otherwise.
serve_latest_preview ==
    IF LATEST_PREVIEW.filename = None
    THEN [http |-> 404, file |-> None]
    ELSE [http |-> 200, file |-> LATEST_PREVIEW.filename]

-----------------------------------------------------------------------------
(* The inputs.                                                             *)

Entry(op, params, bpy_ok) == [op |-> op, params |-> params, bpy_ok |-> bpy_ok]

\* The entries the operation batches are built from.
OpSamples == {
    Entry("reset", <<>>, TRUE),
    Entry("add_box", [name |-> "B1", size |-> <<2, 2, 2>>], TRUE),
    Entry("add_box", [name |-> "B1", size |-> <<2>>], TRUE),
    Entry("add_cylinder", [name |-> "C1"], TRUE),
    Entry("translate", [object |-> "B1", vector |-> <<1, 0, 0>>], TRUE),
    Entry("rotate", [object |-> "B1", rotation |-> <<0, 0, 1>>], TRUE),
    Entry("boolean_diff", [target |-> "B1", cutter |-> "C1"], TRUE),
    Entry("export", [filename |-> "model.obj"], TRUE),
    Entry("export", [filename |-> "model.obj"], FALSE),
    Entry("fly", <<>>, TRUE)
}

Batches ==
    { [operations |-> es] : es \in UNION { [1..n -> OpSamples] : n \in 0..MaxOps } }

\* The batches of the bridge specification.
BridgeBatches == {
    [operations |-> <<Entry("add_box", [name |-> "B1", size |-> <<2, 2, 2>>], TRUE)>>],
    [operations |-> <<Entry("fly", <<>>, TRUE),
                      Entry("translate", [object |-> "B1", vector |-> <<1, 0, 0>>], TRUE)>>],
    NonDict
}

ScriptOk == <<"import", "bpy", NEWLINE, "bpy", ".", "ops", ".", "render", "(", ")">>
ScriptDenied == <<"import", "os", NEWLINE, "os", ".", "system", "(", "'ls'", ")">>
ScriptFenced ==
    <<"<fence>python", NEWLINE, "import", "bpy", NEWLINE>>
    \o EngineTarget \o <<"'CYCLES'", NEWLINE, "<fence>">>
ScriptUnbalanced == <<"eval", "(", "'ls'">>

\* The texts generate receives, and the texts XML-RPC clients send directly.
GenerateTexts == {ScriptOk, ScriptDenied, ScriptFenced, ScriptUnbalanced}
ClientScripts == {ScriptOk, ScriptUnbalanced}

-----------------------------------------------------------------------------
(* The specifications.                                                     *)

BridgeInit ==
    /\ task_queue = <<>>
    /\ response_queue = <<>>
    /\ timer = TimerIdle
    /\ rpc = RpcIdle
    /\ scene = <<>>
    /\ files = {}
    /\ previews = <<>>
    /\ gen = [g \in 1..MaxGen |-> GenIdle]
    /\ LATEST_PREVIEW = [status |-> "idle", filename |-> None, error |-> None,
                         exported_files |-> <<>>]
    /\ pushed = 0
    /\ popped = <<>>
    /\ returned = <<>>
    /\ last_run = NoRun

Pending == [ok |-> FALSE, reason |-> ErrorMsg("pending", <<>>)]

Init ==
    /\ code = <<>>
    /\ verdict = Pending
    /\ BridgeInit

\* The bridge: XML-RPC clients of process_operations and process_script,
\* and the timer.
Next ==
    \/ \E ops \in BridgeBatches : enqueue_ops_put(ops)
    \/ enqueue_ops_get
    \/ enqueue_ops_sleep
    \/ enqueue_ops_timeout
    \/ \E script_text \in ClientScripts : enqueue_script_put(script_text)
    \/ enqueue_script_get
    \/ enqueue_script_sleep
    \/ enqueue_script_timeout
    \/ TimerCheck
    \/ TimerGet
    \/ TimerRunOps
    \/ \E o \in ScriptOutcomes : TimerRunScript(o)

Spec == Init /\ [][Next]_vars

\* The outcomes of the runs of scripts in the specification with fairness:
\* what exec raises, with every later step succeeding.
TickOutcomes ==
    { o \in ScriptOutcomes :
        /\ ~o.adds_object /\ o.saves_preview
        /\ o.listdir_ok /\ o.render_ok /\ o.gltf_ok /\ o.obj_ok }

\* One step of an invocation of blender_timer.
TimerNext ==
    \/ TimerCheck
    \/ TimerGet
    \/ TimerRunOps
    \/ \E o \in TickOutcomes : TimerRunScript(o)

\* The calls of the bridge, one batch and one script, and the timer.
TickingNext ==
    \/ enqueue_ops_put([operations |-> <<Entry("add_cylinder", [name |-> "C1"], TRUE)>>])
    \/ enqueue_ops_get
    \/ enqueue_ops_sleep
    \/ enqueue_ops_timeout
    \/ enqueue_script_put(ScriptOk)
    \/ enqueue_script_get
    \/ enqueue_script_sleep
    \/ enqueue_script_timeout
    \/ TimerNext

\* The bridge while Blender keeps calling blender_timer: a timer that
\* returns its interval is called again, so no step of it waits forever.
SpecTicking == Init /\ [][TickingNext]_vars /\ WF_vars(TimerNext)

\* The outcomes of the runs of the scripts of generate requests: those in
\* which the directory can be listed, both exports fare alike and the script
\* adds no object.
GenOutcomes ==
    { o \in ScriptOutcomes : o.listdir_ok /\ ~o.adds_object /\ o.obj_ok = o.gltf_ok }

\* The generate requests of the Flask application, a client of
\* process_operations beside them, and the timer.
GenNext ==
    \/ \E g \in 1..MaxGen : \E text \in GenerateTexts : generate_sanitize(g, text)
    \/ \E g \in 1..MaxGen : generate_call(g)
    \/ \E g \in 1..MaxGen : generate_transport_error(g)
    \/ \E g \in 1..MaxGen : generate_response(g)
    \/ enqueue_script_get
    \/ enqueue_script_sleep
    \/ enqueue_script_timeout
    \/ enqueue_ops_put([operations |-> <<Entry("fly", <<>>, TRUE)>>])
    \/ enqueue_ops_get
    \/ enqueue_ops_sleep
    \/ enqueue_ops_timeout
    \/ TimerCheck
    \/ TimerGet
    \/ TimerRunOps
    \/ \E o \in GenOutcomes : TimerRunScript(o)

SpecGen == Init /\ [][GenNext]_vars

\* One operation batch, from enqueue_ops to its results.
OpsNext ==
    \/ pushed = 0 /\ \E ops \in Batches : enqueue_ops_put(ops)
    \/ enqueue_ops_get
    \/ enqueue_ops_sleep
    \/ enqueue_ops_timeout
    \/ TimerCheck
    \/ TimerGet
    \/ TimerRunOps

SpecOps == Init /\ [][OpsNext]_vars

\* The sanitizer on its own: every code sample, validated once.
SanInit ==
    /\ code \in CodeSamples
    /\ verdict = Pending
    /\ BridgeInit

Validate ==
    /\ verdict = Pending
    /\ verdict' = sanitize_script(code)
    /\ UNCHANGED <<code, agentVars, appVars, histVars>>

SanNext == Validate

SpecSanitize == SanInit /\ [][SanNext]_vars

-----------------------------------------------------------------------------
(* Properties of the sanitizer (checked under SpecSanitize).               *)

Validated == verdict # Pending
Tree == ast_parse(code)

RECURSIVE SubNodes(_)
SubNodes(n) == {n} \cup UNION { SubNodes(n.kids[i]) : i \in 1..Len(n.kids) }

RECURSIVE RootedAtName(_)
RootedAtName(n) ==
    IF n.type = "Name" THEN TRUE
    ELSE IF n.type = "Attribute" THEN RootedAtName(n.kids[1])
    ELSE FALSE

\* The callee is a direct name or a dotted chain rooted at a name, and the
\* name, or its final segment, is denied.
ResolvesToDenied(call) ==
    LET func == call.kids[1]
    IN  /\ call.type = "Call"
        /\ RootedAtName(func)
        /\ func.id \in forbidden_calls

\* The callee is an attribute access with a denied attribute name, on
\* whatever expression.
DeniedAttributeCall(call) ==
    /\ call.type = "Call"
    /\ call.kids[1].type = "Attribute"
    /\ call.kids[1].id \in forbidden_calls

DisallowedImport(n) ==
    \/ n.type = "Import" /\ \E i \in 1..Len(n.names) : Base(n.names[i]) \notin allowed_imports
    \/ n.type = "ImportFrom" /\ Base(n.names[1]) \notin allowed_imports

ContainsDeniedCall(tree) == \E n \in SubNodes(tree) : ResolvesToDenied(n)
ContainsDeniedAttributeCall(tree) == \E n \in SubNodes(tree) : DeniedAttributeCall(n)
OnlyAllowedImports(tree) == \A n \in SubNodes(tree) : ~DisallowedImport(n)

C3_DisallowedImportRejected ==
    (Validated /\ Tree.ok /\ ~OnlyAllowedImports(Tree.node)) => ~verdict.ok

\* C3 witness: a disallowed import that is not the last statement, followed
\* by a statement with no violation of its own, was rejected.
C3_Witness ==
    /\ Validated /\ Tree.ok
    /\ Len(Tree.node.kids) = 2
    /\ ~OnlyAllowedImports(Tree.node.kids[1])
    /\ OnlyAllowedImports(Tree.node.kids[2])
    /\ ~ContainsDeniedAttributeCall(Tree.node.kids[2])
    /\ ~ContainsDeniedCall(Tree.node.kids[2])
    /\ Tree.node.kids[2].type = "Expr"
    /\ ~verdict.ok

RECURSIVE Count(_, _)
Count(toks, tok) ==
    IF toks = <<>> THEN 0
    ELSE (IF Head(toks) = tok THEN 1 ELSE 0) + Count(Tail(toks), tok)

Unbalanced(text) ==
    \/ Count(text, "(") # Count(text, ")")
    \/ Count(text, "[") # Count(text, "]")

\* C4: a sample that fails to parse (among them every sample with unbalanced
\* brackets) is Rejected with the syntax-error reason, never another one.
C4_SyntaxErrorReason ==
    (Validated /\ (~Tree.ok \/ Unbalanced(code))) =>
        /\ ~verdict.ok
        /\ verdict.reason.kind = "syntax error during parse"

\* C4 witness: an unbalanced sample that names a denied call was rejected.
C4_Witness ==
    /\ Validated
    /\ Unbalanced(code)
    /\ \E i \in 1..Len(code) : code[i] \in forbidden_calls
    /\ verdict.reason.kind = "syntax error during parse"

\* C5 (as stated): whenever the code has a call resolving to a denied name,
\* the reason is "forbidden call detected" with the name of such a call.
C5_AsStated ==
    (Validated /\ Tree.ok /\ ContainsDeniedCall(Tree.node)) =>
        /\ verdict.reason.kind = "forbidden call detected"
        /\ \E n \in SubNodes(Tree.node) :
              ResolvesToDenied(n) /\ verdict.reason.name = FullName(n.kids[1])

\* The violations of a tree in the order of the walk: statements in order, a
\* call's callee before its arguments, nothing below a flagged call.
RECURSIVE Violations(_)
ViolationsOfAll(nodes) ==
    IF nodes = <<>> THEN <<>>
    ELSE LET F[i \in 0..Len(nodes)] ==
                 IF i = 0 THEN <<>> ELSE F[i - 1] \o Violations(nodes[i])
         IN  F[Len(nodes)]

Violations(n) ==
    IF n.type = "Import"
    THEN IF DisallowedImport(n)
         THEN LET i == CHOOSE i \in 1..Len(n.names) :
                          /\ Base(n.names[i]) \notin allowed_imports
                          /\ \A j \in 1..(i - 1) : Base(n.names[j]) \in allowed_imports
              IN  <<ErrorMsg("import not allowed", n.names[i])>>
         ELSE <<>>
    ELSE IF n.type = "ImportFrom"
    THEN IF DisallowedImport(n) THEN <<ErrorMsg("from-import not allowed", n.names[1])>> ELSE <<>>
    ELSE IF ResolvesToDenied(n) \/ DeniedAttributeCall(n)
    THEN <<ErrorMsg("forbidden call detected", FullName(n.kids[1]))>>
    ELSE ViolationsOfAll(n.kids)

\* C5 (amended): the reason returned is that of the last violation the walk
\* meets; so it is "forbidden call detected: <name>" of a call exactly when
\* no disallowed import and no other flagged call is met after that call.
C5_LastViolationIsReason ==
    (Validated /\ Tree.ok) =>
        LET V == Violations(Tree.node)
        IN  IF V = <<>> THEN verdict.ok
            ELSE ~verdict.ok /\ verdict.reason = V[Len(V)]

\* C5 witness: import os followed by os.system('ls') was rejected with
\* "forbidden call detected: os.system".
C5_Witness ==
    /\ Validated
    /\ code = <<"import", "os", NEWLINE, "os", ".", "system", "(", "'ls'", ")">>
    /\ verdict.reason = ErrorMsg("forbidden call detected", <<"os", "system">>)

-----------------------------------------------------------------------------
(* Properties of generate (checked under SpecGen).                         *)

\* The caller of the put number id: the call being served, or a call that
\* has returned.
CallerOf(id) ==
    IF rpc.id = id THEN rpc.caller
    ELSE LET i == CHOOSE i \in 1..Len(returned) : returned[i].id = id
         IN  returned[i].caller

\* The script tasks that are queued or in the hands of blender_timer.
ScriptTasks ==
    { task_queue[i] : i \in { j \in 1..Len(task_queue) : task_queue[j].type = "script" } }
    \cup (IF timer.item.type = "script" THEN {timer.item} ELSE {})

\* The puts made for the generate request g.
PutsOf(g) == { id \in 1..pushed : CallerOf(id) = g }

\* C1: a generate request calls process_script only after sanitize_script
\* has returned on its text: every script task put for a request carries
\* exactly the text that was validated, and that text was accepted; a
\* request whose text was rejected (HTTP 400) has put no task, so none of
\* its text is queued or reaches the timer.
C1_SanitizedBeforeEnqueue ==
    /\ \A t \in ScriptTasks :
          LET g == CallerOf(t.id)
          IN  g # 0 => /\ t.script = gen[g].validated
                       /\ sanitize_script(t.script).ok
    /\ \A g \in 1..MaxGen :
          /\ PutsOf(g) # {} => sanitize_script(gen[g].validated).ok
          /\ gen[g].http = 400 => /\ ~sanitize_script(gen[g].validated).ok
                                  /\ PutsOf(g) = {}

\* C1 witness: the timer is about to run the task of a request whose text
\* was changed before validation (fences stripped, engine replaced), while
\* another request was rejected.
C1_Witness ==
    /\ timer.pc = "run"
    /\ timer.item.type = "script"
    /\ CallerOf(timer.item.id) # 0
    /\ timer.item.script # ScriptFenced
    /\ \E i \in 1..Len(timer.item.script) : timer.item.script[i] = "'BLENDER_EEVEE'"
    /\ \E g \in 1..MaxGen : gen[g].http = 400

-----------------------------------------------------------------------------
(* Properties of the bridge (checked under Spec).                          *)

Ids(q) == [i \in 1..Len(q) |-> q[i].id]

\* C6: the items are got from task_queue in the order of the puts (the ids
\* count the puts): what was got so far is 1, 2, ..., what is queued follows
\* in order, and nothing is skipped, duplicated or reordered.
C6_FifoOrder ==
    /\ Ids(popped) = [i \in 1..Len(popped) |-> i]
    /\ Ids(task_queue) = [i \in 1..Len(task_queue) |-> Len(popped) + i]
    /\ Len(popped) + Len(task_queue) = pushed

\* C6 witness: two tasks, one put by process_operations and one by
\* process_script, were queued together and both have been got.
C6_Witness ==
    /\ Len(popped) = 2
    /\ popped[1].left = 1
    /\ \E i, j \in 1..Len(returned) :
          /\ returned[i].method = "process_operations"
          /\ returned[j].method = "process_script"

\* C7: a step removes at most one item from task_queue, the oldest, and it
\* is the get of an invocation of blender_timer that goes on to run that
\* item and then returns: an invocation gets one item; the items left keep
\* their order; an invocation that finds task_queue empty returns at once
\* and changes neither queue.
C7_OneTaskPerTick ==
    [][ /\ \/ /\ task_queue # <<>>
              /\ task_queue' = Tail(task_queue)
              /\ timer.pc = "get" /\ timer'.pc = "run"
              /\ timer'.item = Head(task_queue)
           \/ /\ Len(task_queue') >= Len(task_queue)
              /\ SubSeq(task_queue', 1, Len(task_queue)) = task_queue
        /\ timer.pc = "run" => timer'.pc \in {"run", "idle", "dead"}
        /\ (timer.pc = "idle" /\ task_queue = <<>> /\ timer' # timer) =>
              /\ timer'.pc = "idle"
              /\ task_queue' = task_queue
              /\ response_queue' = response_queue
      ]_vars

\* C7 witness: blender_timer has got one item while another was queued, and
\* the other is still queued.
C7_Witness ==
    /\ timer.pc = "run"
    /\ popped # <<>>
    /\ popped[Len(popped)].left = 1
    /\ Len(task_queue) = 1

-----------------------------------------------------------------------------
(* Properties of a batch (checked under SpecOps).                          *)

BatchRan == last_run.type = "ops" /\ ~last_run.raised
Operations == last_run.ops.operations
Results == last_run.results
Known(op) == op.op \in DOMAIN OP_MAP

\* The call made for the i-th operation, a known one.
CallOf(i) == last_run.called[Cardinality({ j \in 1..i : Known(Operations[j]) })]

\* C8: there is one result per operation, in order, the i-th with the name of
\* the i-th operation; the calls func(params) made are those of the known
\* operations, one each, in order, also after an unknown name or a call that
\* raised.
C8_OneResultPerOperation ==
    BatchRan =>
        /\ Len(Results) = Len(Operations)
        /\ \A i \in 1..Len(Operations) : Results[i].op = Operations[i].op
        /\ [i \in 1..Len(last_run.called) |-> last_run.called[i].func]
             = [i \in 1..Len(SelectSeq(Operations, Known)) |->
                    OP_MAP[SelectSeq(Operations, Known)[i].op]]

\* C8 witness: a batch whose first operation is unknown and whose second
\* raised has run a third one, which added its object.
C8_Witness ==
    /\ BatchRan
    /\ Len(Operations) = 3
    /\ ~Known(Operations[1])
    /\ Results[2].status = "error" /\ Known(Operations[2])
    /\ Results[3].status = "ok"
    /\ Operations[3].op = "add_cylinder"
    /\ ObjName("C1") \in DOMAIN last_run.after

\* C9: a result has status error exactly when the name is not in OP_MAP (msg
\* "unsupported op") or the call raised (msg is the text of the exception);
\* otherwise it has status ok and carries what the call returned, a
\* (False, message) pair included.
C9_ErrorIffUnknownOrRaised ==
    BatchRan =>
        \A i \in 1..Len(Operations) :
            IF ~Known(Operations[i])
            THEN Results[i] = [op |-> Operations[i].op, status |-> "error",
                               msg |-> "unsupported op"]
            ELSE IF CallOf(i).raised
            THEN Results[i] = [op |-> Operations[i].op, status |-> "error",
                               msg |-> CallOf(i).msg]
            ELSE Results[i] = [op |-> Operations[i].op, status |-> "ok",
                               result |-> CallOf(i).value]

\* C9 witness: a batch with a translate of an object that is not there,
\* which returned (False, "object not found") and has status ok, and with an
\* unknown name besides.
C9_Witness ==
    /\ BatchRan
    /\ \E i, j \in 1..Len(Operations) :
          /\ Operations[i].op = "translate"
          /\ Results[i].status = "ok"
          /\ Results[i].result = RetPair(FALSE, "object not found")
          /\ ~Known(Operations[j])
          /\ Results[j].status = "error"

\* C10 (as stated): every operation of OP_MAP, reset included, takes the
\* params it is called with: whenever the body of its function succeeds on
\* the scene it finds, the result has status ok and the scene and the files
\* are as the body leaves them.
C10_EveryCapabilityTakesParams ==
    BatchRan =>
        \A i \in 1..Len(Operations) :
            Known(Operations[i]) =>
                LET c == CallOf(i)
                    b == Body(c.func, Operations[i].params, c.before.scene,
                              c.before.files, Operations[i].bpy_ok)
                IN  ~b.raised =>
                        /\ Results[i].status = "ok"
                        /\ c.after = [scene |-> b.scene, files |-> b.files]

-----------------------------------------------------------------------------
(* Properties of the run of a script and of the calls (checked under Spec). *)

\* The responses put for the item id that are queued, and the calls that
\* have taken one away.
QueuedFor(id) == { i \in 1..Len(response_queue) : response_queue[i].id = id }
TakenFor(id) == { i \in 1..Len(returned) : returned[i].from = id }

\* C11 (as stated): when the code of a script task raises, whatever it
\* raises, the run puts exactly one response, {"status": "error", "error":
\* <message>} with no preview and no exported files, and neither looks for a
\* preview, nor renders one, nor exports.
C11_RaisingScriptGivesOneError ==
    (last_run.type = "script" /\ last_run.exec # "no") =>
        /\ last_run.resp.shape = "dict"
        /\ DOMAIN last_run.resp.dict = {"status", "error"}
        /\ last_run.resp.dict.status = "error"
        /\ Cardinality(QueuedFor(last_run.id)) + Cardinality(TakenFor(last_run.id)) = 1
        /\ ~last_run.looked /\ ~last_run.rendered
        /\ last_run.gltf = "skipped" /\ last_run.obj = "skipped"

\* C12 (as stated): a call that returns while the item it put is still on
\* task_queue returns {"error": "timeout"}, whatever the queues hold; and no
\* call waits beyond its timeout.
C12_UndrainedCallTimesOut ==
    /\ \A i \in 1..Len(returned) : returned[i].pending => returned[i].what = "timeout"
    /\ rpc.slept <= TimeoutSleeps(rpc.method)

Strictly(ids) == \A i, j \in 1..Len(ids) : i < j => ids[i] < ids[j]

\* The items whose responses were returned to callers, in the order of the returns.
Delivered == Ids(SelectSeq([i \in 1..Len(returned) |-> [id |-> returned[i].from]],
                           LAMBDA e : e.id # 0))

\* C14: responses go to callers by queue order alone: the responses returned
\* so far are, in order, those of the earliest runs, and the queued ones
\* follow in the order of their runs, whichever call is waiting.
C14_MatchedByQueueOrder ==
    /\ Strictly(Delivered \o Ids(response_queue))
    /\ \A i \in 1..Len(returned) :
          returned[i].from # 0 => returned[i].from <= returned[i].id

\* C14 witness: a call timed out while its item was still queued, the item
\* was run afterwards, and its response was returned to a later call of the
\* other method as that call's result.
C14_Witness ==
    \E i, j \in 1..Len(returned) :
        /\ i < j
        /\ returned[i].what = "timeout"
        /\ returned[i].pending
        /\ returned[j].from = returned[i].id
        /\ returned[j].id # returned[i].id
        /\ returned[j].method # returned[i].method

\* C15 (as stated): at most one item is in flight: the items put whose
\* response no caller has taken are at most one.
C15_AtMostOneInFlight ==
    pushed - Cardinality({ i \in 1..Len(returned) : returned[i].from # 0 }) <= 1

\* C19 (as stated): when all calls so far are process_operations calls made
\* one after another, every call that got a response got the one of the
\* item it put itself: the k-th call the results of the k-th batch.
C19_EachCallGetsOwnResults ==
    (/\ rpc.method \in {"", "process_operations"}
     /\ \A i \in 1..Len(returned) : returned[i].method = "process_operations") =>
        \A i \in 1..Len(returned) :
            returned[i].from # 0 => returned[i].from = returned[i].id

TimedOut(id) ==
    \E i \in 1..Len(returned) : returned[i].id = id /\ returned[i].what = "timeout"
Answered(id) == QueuedFor(id) # {} \/ TakenFor(id) # {}

\* C13: the step by which a call times out leaves task_queue as it is; and
\* while blender_timer keeps being called (it is, unless an invocation was
\* left by an exception and not rescheduled), the item of a call that timed
\* out is eventually run and its response put on response_queue.
C13_TimedOutTaskStillRuns ==
    /\ [][(/\ rpc.pc = "wait" /\ rpc'.pc = "idle"
           /\ returned'[Len(returned')].what = "timeout") => task_queue' = task_queue]_vars
    /\ \A id \in 1..MaxCalls :
          [](TimedOut(id) => <>(Answered(id) \/ timer.pc = "dead"))

\* C13 witness: a call timed out while its item was still queued, and the
\* item has been run since and its response put.
C13_Witness ==
    \E i \in 1..Len(returned) :
        /\ returned[i].what = "timeout"
        /\ returned[i].pending
        /\ Answered(returned[i].id)

\* C16: the scene and the files of OUTPUT_DIR change, and a run is recorded,
\* only by the step of blender_timer that runs the item it holds, never by a
\* step of the server thread; and blender_timer holds one item at a time:
\* the items got and not yet run to their end are at most one, the one
\* being run.
C16_OnlyTheTimerExecutes ==
    [][ /\ (scene' # scene \/ files' # files \/ previews' # previews
            \/ last_run' # last_run) =>
              /\ timer.pc = "run"
              /\ timer'.pc \in {"idle", "dead"}
              /\ last_run'.id = timer.item.id
              /\ rpc' = rpc
        /\ Len(popped') - last_run'.id = (IF timer'.pc = "run" THEN 1 ELSE 0)
      ]_vars

\* C16 witness: a batch has changed the scene while a call of the server
\* thread was waiting and another item was queued.
C16_Witness ==
    /\ last_run.type = "ops" /\ ~last_run.raised
    /\ last_run.after # last_run.before
    /\ rpc.pc = "wait"
    /\ task_queue # <<>>

\* C17 (as stated): no invocation of blender_timer is left without returning
\* its interval, whatever the item and whatever its run raises (so the
\* timer is always called again), and every run has put a response.
C17_TickLoopSurvives ==
    /\ timer.pc # "dead"
    /\ last_run.id # 0 => Answered(last_run.id)

-----------------------------------------------------------------------------
(* Properties of LATEST_PREVIEW (checked under SpecGen).                   *)

OkWithPreview(resp) ==
    /\ resp.shape = "dict"
    /\ DOMAIN resp.dict = {"status", "preview", "exported_files"}
    /\ resp.dict.status = "ok"

\* C18: a request whose text passed sanitize_script sets status to running
\* before its call of process_script puts the task; the step by which the
\* request ends sets status to done, with the file name of the preview and
\* the exported files, if the call returned a response with status ok and a
\* preview, and to error with a message in every other case (an error
\* response, a timeout, a list, an exception of the transport).
C18_StatusAroundCall ==
    [][\A g \in 1..MaxGen :
        /\ (gen[g].pc = "idle" /\ gen'[g].pc = "send") =>
              LATEST_PREVIEW'.status = "running" /\ pushed' = pushed
        /\ (gen[g].pc # "rpc" /\ gen'[g].pc = "rpc") =>
              gen[g].pc = "send" /\ pushed' = pushed + 1
        /\ (gen[g].pc \in {"send", "rpc", "resp"} /\ gen'[g].pc = "done") =>
              IF gen[g].pc = "resp" /\ OkWithPreview(gen[g].resp)
              THEN /\ LATEST_PREVIEW'.status = "done"
                   /\ LATEST_PREVIEW'.filename = gen[g].resp.dict.preview.name
                   /\ LATEST_PREVIEW'.exported_files = gen[g].resp.dict.exported_files
                   /\ LATEST_PREVIEW'.error = None
              ELSE /\ LATEST_PREVIEW'.status = "error"
                   /\ LATEST_PREVIEW'.error # None
      ]_vars

\* C18 witness: one request has ended with done and another, whose call
\* timed out, with error.
C18_Witness ==
    \E g, h \in 1..MaxGen :
        /\ gen[g].pc = "done" /\ gen[g].http = 200
        /\ gen[h].pc = "done" /\ gen[h].http = 500
        /\ \E i \in 1..Len(returned) :
              returned[i].caller = h /\ returned[i].what = "timeout"
        /\ LATEST_PREVIEW.status \in {"done", "error"}

-----------------------------------------------------------------------------
(* Calls whose callee is not resolved (checked under SpecSanitize).        *)

\* The callee is neither a direct name nor a dotted chain rooted at a name.
Unresolved(call) == call.type = "Call" /\ ~RootedAtName(call.kids[1])

\* The attribute names of the callee, outermost last.
RECURSIVE Attrs(_)
Attrs(n) == IF n.type = "Attribute" THEN Append(Attrs(n.kids[1]), n.id) ELSE <<>>

\* Nothing but an unresolved call can be the cause of a rejection.
OnlyUnresolvedSuspect ==
    /\ Validated /\ Tree.ok
    /\ OnlyAllowedImports(Tree.node)
    /\ ~ContainsDeniedCall(Tree.node)

-----------------------------------------------------------------------------
(* Properties of the run of a script (checked under Spec).                 *)

\* The last run was a script whose exec, and the preview step after it,
\* raised nothing.
ScriptRanToExports == last_run.type = "script" /\ ~last_run.raised

\* C21: when a script has run without raising, each of the two exports is
\* attempted, whatever the other did; the response has status ok, and its
\* exported_files are exactly the files of the exports that succeeded, GLTF
\* before OBJ.
C21_ExportsIndependent ==
    ScriptRanToExports =>
        /\ last_run.exec = "no"
        /\ last_run.gltf \in {"ok", "failed"}
        /\ last_run.obj \in {"ok", "failed"}
        /\ last_run.resp.shape = "dict"
        /\ last_run.resp.dict.status = "ok"
        /\ last_run.resp.dict.exported_files =
              (IF last_run.gltf = "ok"
               THEN <<FileName("model_.gltf", last_run.id)>> ELSE <<>>)
              \o (IF last_run.obj = "ok"
                  THEN <<FileName("model_.obj", last_run.id)>> ELSE <<>>)
        /\ { last_run.resp.dict.exported_files[i] :
                i \in 1..Len(last_run.resp.dict.exported_files) } \subseteq files

\* C21 witness: the GLTF export failed, the OBJ export succeeded, and the
\* response is ok with the OBJ file alone.
C21_Witness ==
    /\ ScriptRanToExports
    /\ last_run.gltf = "failed" /\ last_run.obj = "ok"
    /\ last_run.resp.dict.status = "ok"
    /\ last_run.resp.dict.exported_files = <<FileName("model_.obj", last_run.id)>>

\* C22: the preview named by the ok response of a script was created
\* during the run of that script, by the script or by the render after it,
\* and is no preview file left by an earlier task.
C22_PreviewIsOwn ==
    ScriptRanToExports =>
        \E i \in 1..Len(previews) :
            /\ previews[i].name = basename(last_run.resp.dict.preview)
            /\ previews[i].by = last_run.id

-----------------------------------------------------------------------------
(* Properties of the timer and the two queues (checked under Spec).        *)

\* C23: the timer never blocks in task_queue.get(): whenever an invocation
\* stands at the get, task_queue is not empty, whatever the calls being
\* served did since the test of empty(); and nothing but the get of the
\* timer takes an item off task_queue, one at a time.
C23_GetNeverBlocks ==
    [][/\ timer.pc = "get" => task_queue # <<>>
       /\ timer'.pc = "get" => task_queue' # <<>>
       /\ Len(task_queue') < Len(task_queue) =>
             /\ timer.pc = "get" /\ timer'.pc = "run"
             /\ task_queue # <<>> /\ task_queue' = Tail(task_queue)
      ]_vars

\* C23 witness: the timer stands at the get while a call is being served
\* and two items are queued (one put before the test of empty(), by a call
\* that timed out, one by the call being served).
C23_Witness ==
    /\ timer.pc = "get"
    /\ rpc.pc = "wait"
    /\ Len(task_queue) = 2
    /\ \E i \in 1..Len(returned) : returned[i].what = "timeout"

\* The responses put on response_queue so far: those still queued and those
\* taken by a call.
ResponsesPut ==
    Len(response_queue) + Cardinality({ i \in 1..Len(returned) : returned[i].from # 0 })

\* The items whose processing has ended: those got, but for the one being run.
TasksProcessed == Len(popped) - (IF timer.pc = "run" THEN 1 ELSE 0)

\* C24: every item the timer gets, whether its processing succeeds or
\* fails, puts exactly one response: in every reachable state the number of
\* responses put equals the number of items whose processing has ended.
C24_OneResponsePerTask == ResponsesPut = TasksProcessed

\* The responses taken by calls that have returned, and the calls that
\* returned {"error": "timeout"}.
Consumed == Cardinality({ i \in 1..Len(returned) : returned[i].from # 0 })
TimedOutCalls == Cardinality({ i \in 1..Len(returned) : returned[i].what = "timeout" })

\* Every item put has been got and its processing has ended, and no call is
\* being served.
AtRest ==
    /\ rpc.pc = "idle"
    /\ task_queue = <<>>
    /\ Len(popped) = pushed
    /\ timer.pc # "run"

\* C25: each call puts one item and takes at most one response, a call that
\* times out takes none: the items put, less the responses taken by the
\* calls that returned (and the call being served), are as many as the calls
\* that timed out; and once every item has been processed response_queue
\* holds exactly one response for each call that timed out.
C25_OneLeftoverPerTimeout ==
    /\ pushed - Consumed = TimedOutCalls + (IF rpc.pc = "wait" THEN 1 ELSE 0)
    /\ AtRest => Len(response_queue) = TimedOutCalls

-----------------------------------------------------------------------------
(* Further properties of LATEST_PREVIEW (checked under SpecGen).           *)

\* C26: whenever status is done the filename is set; a filename that is set
\* is never reset to None; and status, once it has left idle, is never idle
\* again.
C26_DoneHasFilename ==
    [][/\ LATEST_PREVIEW.status = "done" => LATEST_PREVIEW.filename # None
       /\ LATEST_PREVIEW'.status = "done" => LATEST_PREVIEW'.filename # None
       /\ LATEST_PREVIEW.filename # None => LATEST_PREVIEW'.filename # None
       /\ LATEST_PREVIEW.status # "idle" => LATEST_PREVIEW'.status # "idle"
      ]_vars

\* C26 witness: after a generation that ended with done, a later request
\* has set status to running, and the filename is still set.
C26_Witness ==
    /\ \E g \in 1..MaxGen : gen[g].pc = "done" /\ gen[g].http = 200
    /\ \E g \in 1..MaxGen : gen[g].pc \in {"send", "rpc"}
    /\ LATEST_PREVIEW.status = "running"
    /\ LATEST_PREVIEW.filename # None

\* C27: every step that sets status to running or to error (the sanitizer
\* rejected the text, the call raised, the response was an error, a timeout
\* or no dict) leaves filename and exported_files as they were.
C27_FailureKeepsArtifact ==
    [][LATEST_PREVIEW'.status \in {"running", "error"} =>
          /\ LATEST_PREVIEW'.filename = LATEST_PREVIEW.filename
          /\ LATEST_PREVIEW'.exported_files = LATEST_PREVIEW.exported_files
      ]_vars

\* C27 witness: one request ended with done, a later one with a timeout
\* response, and LATEST_PREVIEW has status error with the filename of the
\* first, which serve_latest_preview still serves.
C27_Witness ==
    /\ \E g \in 1..MaxGen : gen[g].pc = "done" /\ gen[g].http = 200
    /\ \E g \in 1..MaxGen :
          /\ gen[g].pc = "done" /\ gen[g].http = 500
          /\ \E i \in 1..Len(returned) :
                returned[i].caller = g /\ returned[i].what = "timeout"
    /\ LATEST_PREVIEW.status = "error"
    /\ LATEST_PREVIEW.filename # None
    /\ serve_latest_preview.http = 200

====
